---- MODULE Spec2Model ----
(***************************************************************************)
(* DNS wire codec of codecrafters-dns-server-rust: the 12-byte header,     *)
(* names, questions, resource records and whole messages, together with    *)
(* the Message builder.  Byte buffers are sequences of 0..255; Rust        *)
(* Result values are records with a tag ("Ok", "Err") and a value; an      *)
(* abort of the program (panic, failed assertion, out-of-bounds slice,     *)
(* unbounded recursion) is the tag "Panic".                                *)
(***************************************************************************)
EXTENDS Integers, Sequences, FiniteSets, TLC

VARIABLES
    hstep,   \* header harness: "bytes", "header", "encoded", "decoded", "roundtrip"
    hdr,     \* the Header handed to From<Header> for [u8; 12]
    hbuf,    \* the 12 bytes handed to Header::try_from
    hres,    \* result of Header::try_from(hbuf), None before the call
    mstep,   \* builder harness: "building", "encoded" or "decoded"
    msg,     \* the Message under construction
    log,     \* the calls made on msg so far, Message::new first
    askres,  \* what the last Message::ask returned, None before the first
    wire,    \* result of Vec::<u8>::from(msg), None before the call
    back,    \* result of Message::try_from(wire), None before the call
    dstep,   \* decoder harness: "input" or "decoded"
    dbuf,    \* the datagram handed to Message::try_from
    dres,    \* result of Message::try_from(dbuf), None before the call
    nstep,   \* name harness: which function is applied to nin / nbuf next
    nin,     \* the Label or ResourceData handed to the encoder or to expand_label
    nbuf,    \* the bytes handed to the parser or to expand_label
    nres,    \* result of the parser or of expand_label, None before the call
    sstep,   \* server: "recv" at recv_from, "forwarding" inside forward_message, "exited"
    sresolver, \* server: TRUE when started with --resolver
    sdgram,  \* server: the datagram being handled
    smsg,    \* server: the message forward_message is completing
    stodo,   \* server: the questions forward_message has not forwarded yet
    sup,     \* server: the datagrams sent to the resolver so far
    ssent,   \* server: <<query, response>> for every response sent so far
    sexit    \* server: what main ended with, None while it runs

hvars == <<hstep, hdr, hbuf, hres>>

mvars == <<mstep, msg, log, askres, wire, back>>

dvars == <<dstep, dbuf, dres>>

nvars == <<nstep, nin, nbuf, nres>>

svars == <<sstep, sresolver, sdgram, smsg, stodo, sup, ssent, sexit>>

vars ==
    <<hstep, hdr, hbuf, hres, mstep, msg, log, askres, wire, back, dstep, dbuf, dres,
      nstep, nin, nbuf, nres, sstep, sresolver, sdgram, smsg, stodo, sup, ssent, sexit>>

\* ------------------------------------------------------------------------
\* Result values
\* ------------------------------------------------------------------------
None == [tag |-> "None", val |-> <<>>]

Ok(v) == [tag |-> "Ok", val |-> v]

Err(e) == [tag |-> "Err", val |-> e]

Panic(why) == [tag |-> "Panic", val |-> <<why>>]

IsOk(r) == r.tag = "Ok"

\* ------------------------------------------------------------------------
\* Fixed-width integers and bytes::Buf / BufMut
\* ------------------------------------------------------------------------
Byte == 0..255

U16 == 2 ^ 16

Pow2(n) == 2 ^ n

RECURSIVE BitAnd(_, _)
\* the & operator on unsigned integers
BitAnd(a, b) ==
    IF a = 0 \/ b = 0 THEN 0
    ELSE (IF a % 2 = 1 /\ b % 2 = 1 THEN 1 ELSE 0) + 2 * BitAnd(a \div 2, b \div 2)

RECURSIVE BitOr(_, _)
\* the | operator on unsigned integers
BitOr(a, b) ==
    IF a = 0 THEN b
    ELSE IF b = 0 THEN a
    ELSE (IF a % 2 = 1 \/ b % 2 = 1 THEN 1 ELSE 0) + 2 * BitOr(a \div 2, b \div 2)

RECURSIVE BitXor(_, _)
\* the ^ operator on unsigned integers
BitXor(a, b) ==
    IF a = 0 THEN b
    ELSE IF b = 0 THEN a
    ELSE (IF a % 2 # b % 2 THEN 1 ELSE 0) + 2 * BitXor(a \div 2, b \div 2)

\* u16 << n: bits shifted past bit 15 are dropped
Shl16(a, n) == (a * Pow2(n)) % U16

\* >> n on an unsigned integer
Shr(a, n) == a \div Pow2(n)

\* Buf::get_u16 on the first two bytes of b (big-endian)
get_u16(b) == b[1] * 256 + b[2]

\* Buf::get_u32 on the first four bytes of b (big-endian).  A u32 is kept as
\* <<high 16 bits, low 16 bits>>, TLC's integers being signed 32-bit ones.
get_u32(b) == <<b[1] * 256 + b[2], b[3] * 256 + b[4]>>

\* BufMut::put_u16
put_u16(v) == <<(v \div 256) % 256, v % 256>>

\* BufMut::put_u32
put_u32(v) == <<(v[1] \div 256) % 256, v[1] % 256, (v[2] \div 256) % 256, v[2] % 256>>

\* &b[from..]: the suffix of b after its first `from` bytes (from <= len)
Drop(b, from) == SubSeq(b, from + 1, Len(b))

\* &b[..to]: the first `to` bytes of b (to <= len)
Take(b, to) == SubSeq(b, 1, to)

\* ------------------------------------------------------------------------
\* header.rs
\* ------------------------------------------------------------------------
Query == "Query"

Response == "Response"

StandardQuery == <<"StandardQuery">>

InverseQuery == <<"InverseQuery">>

StatusRequest == <<"StatusRequest">>

Reserved(code) == <<"Reserved", code>>

\* impl From<OperationCode> for u16
OperationCodeToU16(op) ==
    IF op = StandardQuery THEN 0
    ELSE IF op = InverseQuery THEN 1
    ELSE IF op = StatusRequest THEN 2
    ELSE op[2]

\* enum HeaderError, with its discriminants (Format = 1, then counting up)
HeaderErrorCode(e) ==
    CASE e = "Format" -> 1
      [] e = "ServerFailure" -> 2
      [] e = "Name" -> 3
      [] e = "NotImplemented" -> 4
      [] e = "Resfused" -> 5

ResponseOk == <<"Ok">>

ResponseErr(e) == <<"Err", e>>

\* header.typ as u16
PacketTypeToU16(t) == IF t = Response THEN 1 ELSE 0

\* HeaderBuilder::new().id(id).build()
HeaderBuild(id) ==
    [id |-> id,
     typ |-> Response,
     operation_code |-> StandardQuery,
     authoritative_answer |-> FALSE,
     truncated_message |-> FALSE,
     recursion_desired |-> FALSE,
     recursion_available |-> FALSE,
     response |-> ResponseOk,
     question_count |-> 0,
     answer_count |-> 0,
     authority_count |-> 0,
     addtional_count |-> 0]

\* DecodeOperationCode with the opcode mask one bit short (0b0011_1000_0000_0000)
DecodeOperationCodeNarrow(flags) ==
    LET code == Shr(BitAnd(flags, 14336), 11)
    IN  CASE code = 0 -> StandardQuery
          [] code = 1 -> InverseQuery
          [] code = 2 -> StatusRequest
          [] OTHER -> Reserved(code)

\* operation_code of Header::try_from
DecodeOperationCode(flags) ==
    LET code == Shr(BitAnd(flags, 30720), 11)
    IN  CASE code = 0 -> StandardQuery
          [] code = 1 -> InverseQuery
          [] code = 2 -> StatusRequest
          [] OTHER -> Reserved(code)

\* DecodeResponse with NotImplemented and Resfused exchanged and 6 accepted
DecodeResponseShifted(flags) ==
    LET code == BitAnd(flags, 15)
    IN  CASE code = 0 -> Ok(ResponseOk)
          [] code = 1 -> Ok(ResponseErr("Format"))
          [] code = 2 -> Ok(ResponseErr("ServerFailure"))
          [] code = 3 -> Ok(ResponseErr("Name"))
          [] code = 5 -> Ok(ResponseErr("NotImplemented"))
          [] code = 6 -> Ok(ResponseErr("Resfused"))
          [] OTHER -> Err(<<"ReservedResponseCode", code>>)

\* response of Header::try_from: Ok(Result<(), HeaderError>) or the parse error
DecodeResponse(flags) ==
    LET code == BitAnd(flags, 15)
    IN  CASE code = 0 -> Ok(ResponseOk)
          [] code = 1 -> Ok(ResponseErr("Format"))
          [] code = 2 -> Ok(ResponseErr("ServerFailure"))
          [] code = 3 -> Ok(ResponseErr("Name"))
          [] code = 4 -> Ok(ResponseErr("NotImplemented"))
          [] code = 5 -> Ok(ResponseErr("Resfused"))
          [] OTHER -> Err(<<"ReservedResponseCode", code>>)

\* HeaderFields with the TC and RD masks exchanged
HeaderFieldsSwapped(value, response) ==
    LET flags == get_u16(Drop(value, 2))
    IN  [id |-> get_u16(value),
         typ |-> IF BitAnd(flags, Pow2(15)) # 0 THEN Response ELSE Query,
         operation_code |-> DecodeOperationCode(flags),
         authoritative_answer |-> BitAnd(flags, 1024) # 0,
         truncated_message |-> BitAnd(flags, 256) # 0,
         recursion_desired |-> BitAnd(flags, 512) # 0,
         recursion_available |-> BitAnd(flags, 128) # 0,
         response |-> response,
         question_count |-> get_u16(Drop(value, 4)),
         answer_count |-> get_u16(Drop(value, 6)),
         authority_count |-> get_u16(Drop(value, 8)),
         addtional_count |-> get_u16(Drop(value, 10))]

\* the fields Header::try_from reads; response is the already decoded status
HeaderFields(value, response) ==
    LET flags == get_u16(Drop(value, 2))
    IN  [id |-> get_u16(value),
         typ |-> IF BitAnd(flags, Pow2(15)) # 0 THEN Response ELSE Query,
         operation_code |-> DecodeOperationCode(flags),
         authoritative_answer |-> BitAnd(flags, 1024) # 0,
         truncated_message |-> BitAnd(flags, 512) # 0,
         recursion_desired |-> BitAnd(flags, 256) # 0,
         recursion_available |-> BitAnd(flags, 128) # 0,
         response |-> response,
         question_count |-> get_u16(Drop(value, 4)),
         answer_count |-> get_u16(Drop(value, 6)),
         authority_count |-> get_u16(Drop(value, 8)),
         addtional_count |-> get_u16(Drop(value, 10))]

\* Header::try_from with the commented-out `return Err(ReservedOperationCode(code))`
\* put back
HeaderTryFromStrict(value) ==
    LET flags == get_u16(Drop(value, 2))
        code == Shr(BitAnd(flags, 30720), 11)
        response == DecodeResponse(flags)
    IN  IF code > 2 THEN Err(<<"ReservedOperationCode", code>>)
        ELSE IF ~IsOk(response) THEN response
        ELSE Ok(HeaderFields(value, response.val))

\* impl TryFrom<[u8; 12]> for Header.  A reserved operation code becomes
\* Reserved(code) and a non-zero z field is only logged: both `return Err`
\* lines are commented out in the source.
HeaderTryFrom(value) ==
    LET response == DecodeResponse(get_u16(Drop(value, 2)))
    IN  IF ~IsOk(response) THEN response
        ELSE Ok(HeaderFields(value, response.val))

BoolToU16(b) == IF b THEN 1 ELSE 0

\* EncodeFlags with the opcode shifted by 12 instead of 11
EncodeFlagsShift12(header) ==
    LET qr == Shl16(PacketTypeToU16(header.typ), 15)
        opcode == Shl16(OperationCodeToU16(header.operation_code), 12)
        aa == Shl16(BoolToU16(header.authoritative_answer), 10)
        tc == Shl16(BoolToU16(header.truncated_message), 9)
        rd == Shl16(BoolToU16(header.recursion_desired), 8)
        ra == Shl16(BoolToU16(header.recursion_available), 7)
        rcode == IF header.response = ResponseOk THEN 0
                 ELSE HeaderErrorCode(header.response[2])
    IN  BitOr(qr, BitOr(opcode, BitOr(aa, BitOr(tc, BitOr(rd, BitOr(ra, rcode))))))

\* the flags word of From<Header> for [u8; 12]
EncodeFlags(header) ==
    LET qr == Shl16(PacketTypeToU16(header.typ), 15)
        opcode == Shl16(OperationCodeToU16(header.operation_code), 11)
        aa == Shl16(BoolToU16(header.authoritative_answer), 10)
        tc == Shl16(BoolToU16(header.truncated_message), 9)
        rd == Shl16(BoolToU16(header.recursion_desired), 8)
        ra == Shl16(BoolToU16(header.recursion_available), 7)
        z == 0
        rcode == IF header.response = ResponseOk THEN 0
                 ELSE HeaderErrorCode(header.response[2])
    IN  BitOr(qr, BitOr(opcode, BitOr(aa, BitOr(tc, BitOr(rd, BitOr(ra, BitOr(z, rcode)))))))

\* impl From<Header> for [u8; 12]
HeaderInto(header) ==
    put_u16(header.id) \o put_u16(EncodeFlags(header))
        \o put_u16(header.question_count) \o put_u16(header.answer_count)
        \o put_u16(header.authority_count) \o put_u16(header.addtional_count)

\* impl TryFrom<&[u8]> for Header
HeaderTryFromSlice(value) ==
    IF Len(value) # 12 THEN Err(<<"SliceSizeMismatch", Len(value)>>)
    ELSE HeaderTryFrom(value)

\* ------------------------------------------------------------------------
\* type_class.rs
\* ------------------------------------------------------------------------
ResourceTypeNames ==
    <<"A", "NS", "MD", "MF", "CNAME", "SOA", "MB", "MG", "MR", "NULL", "WKS",
      "PTR", "HINFO", "MINFO", "MX", "TXT">>

\* impl TryFrom<u16> for ResourceType
ResourceTypeTryFrom(value) ==
    IF value \in 1..16 THEN Ok(ResourceTypeNames[value])
    ELSE Err(<<"UnregisteredType", value>>)

\* impl TryFrom<u16> for QuestionType
QuestionTypeTryFrom(value) ==
    CASE value \in 1..16 -> Ok(ResourceTypeNames[value])
      [] value = 252 -> Ok("AXFR")
      [] value = 253 -> Ok("MAILB")
      [] value = 254 -> Ok("MAILA")
      [] value = 255 -> Ok("ALL")
      [] OTHER -> Err(<<"UnregisteredType", value>>)

\* `typ as u16` for ResourceType and QuestionType (A = 1 .. TXT = 16, AXFR = 252 ..)
TypeCode(t) ==
    CASE t = "AXFR" -> 252
      [] t = "MAILB" -> 253
      [] t = "MAILA" -> 254
      [] t = "ALL" -> 255
      [] OTHER -> CHOOSE i \in 1..16 : ResourceTypeNames[i] = t

ClassNames == <<"IN", "CS", "CH", "HS">>

\* impl TryFrom<u16> for ResourceClass
ResourceClassTryFrom(value) ==
    IF value \in 1..4 THEN Ok(ClassNames[value])
    ELSE Err(<<"UnregisteredClass", value>>)

\* impl TryFrom<u16> for QuestionClass
QuestionClassTryFrom(value) ==
    CASE value \in 1..4 -> Ok(ClassNames[value])
      [] value = 255 -> Ok("Any")
      [] OTHER -> Err(<<"UnregisteredClass", value>>)

\* `class as u16` for ResourceClass and QuestionClass (IN = 1 .. HS = 4, Any = 255)
ClassCode(c) ==
    IF c = "Any" THEN 255 ELSE CHOOSE i \in 1..4 : ClassNames[i] = c

\* ------------------------------------------------------------------------
\* label.rs.  A CharacterString is its byte sequence; a Label is
\* <<"Sequence", strings>> or <<"Compressed", offset>>.
\* ------------------------------------------------------------------------
MaxStringLen == 255

Sequence(strings) == <<"Sequence", strings>>

Compressed(offset) == <<"Compressed", offset>>

\* position of the first b'.' of value at or after index from, 0 if none
NextDot(value, from) ==
    LET dots == {i \in from..Len(value) : value[i] = 46}
    IN  IF dots = {} THEN 0 ELSE CHOOSE i \in dots : \A j \in dots : i <= j

RECURSIVE SplitDots(_, _)
\* value.split(|&e| e == b'.') from index from on
SplitDots(value, from) ==
    LET d == NextDot(value, from)
    IN  IF d = 0 THEN <<SubSeq(value, from, Len(value))>>
        ELSE <<SubSeq(value, from, d - 1)>> \o SplitDots(value, d + 1)

\* Label::parse / Label::parse_str
LabelParse(value) ==
    LET parts == SplitDots(value, 1)
        bad == {i \in 1..Len(parts) : Len(parts[i]) = 0 \/ Len(parts[i]) > MaxStringLen}
        first == CHOOSE i \in bad : \A j \in bad : i <= j
    IN  IF bad = {} THEN Ok(Sequence(parts))
        ELSE IF Len(parts[first]) = 0 THEN Err(<<"IncompleteBuffer">>)
        ELSE Err(<<"MaxSizeReached", Len(parts[first])>>)

\* parse_character_string: Ok(<<string, consumed>>) or the LabelError.  The
\* 255 limit is applied to the length of the whole remaining buffer.
parse_character_string(value) ==
    LET length == Len(value)
    IN  IF length = 0 THEN Err(<<"IncompleteBuffer">>)
        ELSE IF length > MaxStringLen THEN Err(<<"MaxSizeReached", length>>)
        ELSE LET count == value[1]
             IN  IF count < length THEN Ok(<<SubSeq(value, 2, count + 1), count + 1>>)
                 ELSE Err(<<"FalseEncodedLength", count>>)

RECURSIVE parse_sequence(_, _, _)
\* the loop of parse_label's sequence arm; buf is never empty on entry
parse_sequence(buf, labels, offset) ==
    IF buf[1] = 0 THEN Ok(<<Sequence(labels), offset + 1>>)
    ELSE LET r == parse_character_string(buf)
         IN  IF ~IsOk(r) THEN r
             ELSE IF Len(buf) = r.val[2] THEN Err(<<"IncompleteBuffer">>)
             ELSE parse_sequence(Drop(buf, r.val[2]), Append(labels, r.val[1]),
                                 offset + r.val[2])

\* parse_label: Ok(<<label, consumed>>), the LabelError, or a panic of
\* Buf::get_u16.  The compressed arm reports buf.remaining() after the two
\* pointer bytes as the number of bytes consumed.
parse_label(value) ==
    IF Len(value) = 0 THEN Err(<<"IncompleteBuffer">>)
    ELSE IF Shr(BitAnd(value[1], 192), 6) = 3
         THEN IF Len(value) < 2 THEN Panic("get_u16")
              ELSE Ok(<<Compressed(BitXor(get_u16(value), 49152)), Len(value) - 2>>)
    ELSE parse_sequence(value, <<>>, 0)

\* impl TryFrom<&[u8]> for Label
LabelTryFrom(value) ==
    LET r == parse_label(value)
    IN  IF IsOk(r) THEN Ok(r.val[1]) ELSE r

\* impl From<CharacterString> for Vec<u8>; the length is cast to u8
CharacterStringInto(string) == <<Len(string) % 256>> \o string

RECURSIVE StringsInto(_)
\* the concatenated encodings of a Vec<CharacterString>
StringsInto(strings) ==
    IF strings = <<>> THEN <<>>
    ELSE CharacterStringInto(Head(strings)) \o StringsInto(Tail(strings))

\* impl From<Label> for Vec<u8>
LabelInto(label) ==
    IF label[1] = "Sequence" THEN StringsInto(label[2]) \o <<0>>
    ELSE put_u16(BitOr(label[2], 49152))

\* ------------------------------------------------------------------------
\* question.rs.  A Question is [name, typ, class] with name a Label.
\* ------------------------------------------------------------------------
\* impl From<Question> for Vec<u8>: Ok(bytes), or the panic of its assert!
QuestionInto(question) ==
    LET name == question.name
    IN  IF name[1] = "Sequence" /\ \E i \in 1..Len(name[2]) : Len(name[2][i]) >= 256
        THEN Panic("label consists of more than 255 bytes")
        ELSE Ok(LabelInto(name) \o put_u16(TypeCode(question.typ))
                    \o put_u16(ClassCode(question.class)))

\* reading type and class in Question::try_from, buf being what the label
\* loop has left of the buffer
parse_type_and_class(buf) ==
    IF Len(buf) <= 1 THEN Err(<<"MissingTypeAndClass">>)
    ELSE IF Len(buf) <= 3 THEN Err(<<"MissingClass">>)
    ELSE LET typ == QuestionTypeTryFrom(get_u16(buf))
             class == QuestionClassTryFrom(get_u16(Drop(buf, 2)))
         IN  IF ~IsOk(typ) THEN Err(<<"InvalidType", typ.val>>)
             ELSE IF ~IsOk(class) THEN Err(<<"InvalidClass", class.val>>)
             ELSE Ok(<<typ.val, class.val>>)

RECURSIVE Utf8From(_, _)
\* str::from_utf8(s).is_ok(), for the bytes of s from index i on
Utf8From(s, i) ==
    LET lead == s[i]
        cont(j) == j <= Len(s) /\ s[j] \in 128..191
        second(lo, hi) == i + 1 <= Len(s) /\ s[i + 1] \in lo..hi
    IN  IF i > Len(s) THEN TRUE
        ELSE IF lead < 128 THEN Utf8From(s, i + 1)
        ELSE IF lead \in 194..223 THEN cont(i + 1) /\ Utf8From(s, i + 2)
        ELSE IF lead \in 224..239
             THEN /\ second(IF lead = 224 THEN 160 ELSE 128,
                            IF lead = 237 THEN 159 ELSE 191)
                  /\ cont(i + 2)
                  /\ Utf8From(s, i + 3)
        ELSE IF lead \in 240..244
             THEN /\ second(IF lead = 240 THEN 144 ELSE 128,
                            IF lead = 244 THEN 143 ELSE 191)
                  /\ cont(i + 2)
                  /\ cont(i + 3)
                  /\ Utf8From(s, i + 4)
        ELSE FALSE

RECURSIVE QuestionTryFromLoop(_, _)
\* the label loop of Question::try_from and what follows it.  The loop
\* breaks with buf still at the zero byte that ends the name, and type and
\* class are read from there.  (length + 1) is u8 arithmetic: for a length
\* of 255 it overflows, which panics, or wraps to 0 and makes the slice
\* buf[1..0] panic.
QuestionTryFromLoop(buf, name) ==
    IF buf = <<>> THEN Err(<<"IncompleteBuffer">>)
    ELSE IF buf[1] = 0
         THEN LET tc == parse_type_and_class(buf)
              IN  IF ~IsOk(tc) THEN tc
                  ELSE Ok([name |-> name, typ |-> tc.val[1], class |-> tc.val[2]])
    ELSE IF Len(buf) > buf[1]
         THEN IF buf[1] = 255 THEN Panic("length + 1")
              ELSE IF ~Utf8From(SubSeq(buf, 2, buf[1] + 1), 1)
                   THEN Err(<<"NoneUtf8EncodedLabel">>)
              ELSE QuestionTryFromLoop(Drop(buf, buf[1] + 1),
                                       Append(name, SubSeq(buf, 2, buf[1] + 1)))
    ELSE Err(<<"FalseEncodedLength">>)

\* impl TryFrom<&[u8]> for Question, its name a sequence of strings
QuestionTryFrom(value) == QuestionTryFromLoop(value, <<>>)

\* parse_question, called by Message::try_from: a name read by parse_label,
\* then type and class; Ok(<<question, consumed>>)
parse_question(value) ==
    LET l == parse_label(value)
    IN  IF l.tag = "Panic" THEN l
        ELSE IF ~IsOk(l) THEN Err(<<"Label", l.val>>)
        ELSE LET tc == parse_type_and_class(Drop(value, l.val[2]))
             IN  IF ~IsOk(tc) THEN tc
                 ELSE Ok(<<[name |-> l.val[1], typ |-> tc.val[1], class |-> tc.val[2]],
                           l.val[2] + 4>>)

\* ------------------------------------------------------------------------
\* resource/mod.rs.  A ResourceRecord is [name, class, time_to_live, data];
\* ResourceData is a tuple whose first element names the variant.
\* ------------------------------------------------------------------------
NameVariants ==
    [NS |-> "NameServer", MD |-> "MailDevice", MF |-> "MailForward",
     CNAME |-> "CanonicalName", MB |-> "MailBox", MG |-> "MailGroup",
     MR |-> "MailRename", PTR |-> "Ptr"]

\* ResourceData::typ
DataTyp(data) ==
    LET v == data[1]
    IN  CASE v = "Address" -> "A"
          [] v = "SOA" -> "SOA"
          [] v = "Null" -> "NULL"
          [] v = "WKS" -> "WKS"
          [] v = "HostInfo" -> "HINFO"
          [] v = "MailInfo" -> "MINFO"
          [] v = "MailExchange" -> "MX"
          [] v = "Text" -> "TXT"
          [] OTHER -> CHOOSE t \in DOMAIN NameVariants : NameVariants[t] = v

\* impl From<ResourceData> for Vec<u8>: Ok(bytes), or the panic of todo!()
ResourceDataInto(data) ==
    LET v == data[1]
    IN  CASE v = "HostInfo" -> Ok(CharacterStringInto(data[2]) \o CharacterStringInto(data[3]))
          [] v = "MailInfo" -> Ok(LabelInto(data[2]) \o LabelInto(data[3]))
          [] v = "MailExchange" -> Ok(put_u16(data[2]) \o LabelInto(data[3]))
          [] v = "Null" -> Ok(data[2])
          [] v = "SOA" ->
                Ok(LabelInto(data[2]) \o LabelInto(data[3]) \o put_u32(data[4])
                       \o put_u32(data[5]) \o put_u32(data[6]) \o put_u32(data[7])
                       \o put_u32(data[8]))
          [] v = "Text" -> Ok(StringsInto(data[2]))
          [] v = "Address" -> Ok(put_u32(data[2]))
          [] v = "WKS" -> Panic("todo: implement the WKS serialization")
          [] OTHER -> Ok(LabelInto(data[2]))

\* impl From<ResourceRecord> for Vec<u8>; the payload length is cast to u16
ResourceRecordInto(rr) ==
    LET record(data) ==
            IF ~IsOk(data) THEN data
            ELSE Ok(LabelInto(rr.name) \o put_u16(TypeCode(DataTyp(rr.data)))
                        \o put_u16(ClassCode(rr.class)) \o put_u32(rr.time_to_live)
                        \o put_u16(Len(data.val) % U16) \o data.val)
    IN  record(ResourceDataInto(rr.data))

\* a LabelError on the way out of a ResourceData parser
DataErr(r) == IF r.tag = "Err" THEN Err(<<"Label", r.val>>) ELSE r

\* ResourceData::parse_host_info
parse_host_info(value) ==
    LET cpu == parse_character_string(value)
    IN  IF ~IsOk(cpu) THEN DataErr(cpu)
        ELSE LET os == parse_character_string(Drop(value, cpu.val[2]))
             IN  IF ~IsOk(os) THEN DataErr(os)
                 ELSE Ok(<<"HostInfo", cpu.val[1], os.val[1]>>)

\* ResourceData::parse_mail_exchange
parse_mail_exchange(value) ==
    IF Len(value) < 2 THEN Panic("value[..2]")
    ELSE LET exchange == LabelTryFrom(Drop(value, 2))
         IN  IF ~IsOk(exchange) THEN DataErr(exchange)
             ELSE Ok(<<"MailExchange", get_u16(value), exchange.val>>)

\* ResourceData::parse_address
parse_address(value) ==
    IF Len(value) < 4 THEN Panic("value[..4]")
    ELSE Ok(<<"Address", get_u32(value)>>)

\* ResourceData::parse_mail_info
parse_mail_info(value) ==
    LET mailbox == parse_label(value)
    IN  IF ~IsOk(mailbox) THEN DataErr(mailbox)
        ELSE LET error_mailbox == LabelTryFrom(Drop(value, mailbox.val[2]))
             IN  IF ~IsOk(error_mailbox) THEN DataErr(error_mailbox)
                 ELSE Ok(<<"MailInfo", mailbox.val[1], error_mailbox.val>>)

RECURSIVE parse_text_loop(_, _, _)
\* the loop of ResourceData::parse_text: every round parses the start of
\* value again and advances buf by what that string consumed
parse_text_loop(value, buf, text) ==
    IF buf = <<>> THEN Ok(<<"Text", text>>)
    ELSE LET s == parse_character_string(value)
         IN  IF ~IsOk(s) THEN DataErr(s)
             ELSE IF s.val[2] > Len(buf) THEN Panic("buf[offset..]")
             ELSE parse_text_loop(value, Drop(buf, s.val[2]), Append(text, s.val[1]))

\* ResourceData::parse_text
parse_text(value) == parse_text_loop(value, value, <<>>)

\* ResourceData::parse_soa: the integers are read from value[offset..],
\* offset being what the second name alone consumed
parse_soa(value) ==
    LET name == parse_label(value)
    IN  IF ~IsOk(name) THEN DataErr(name)
        ELSE LET mail == parse_label(Drop(value, name.val[2]))
             IN  IF ~IsOk(mail) THEN DataErr(mail)
                 ELSE LET buf == Drop(value, mail.val[2])
                      IN  IF Len(buf) < 20 THEN Panic("get_u32")
                          ELSE Ok(<<"SOA", name.val[1], mail.val[1],
                                    get_u32(buf), get_u32(Drop(buf, 4)),
                                    get_u32(Drop(buf, 8)), get_u32(Drop(buf, 12)),
                                    get_u32(Drop(buf, 16))>>)

\* wrap_label
wrap_label(value, data) ==
    LET label == LabelTryFrom(value)
    IN  IF ~IsOk(label) THEN DataErr(label) ELSE Ok(<<data, label.val>>)

\* the type dispatch of parse_resource_record
parse_data(typ, buf) ==
    CASE typ = "A" -> parse_address(buf)
      [] typ = "SOA" -> parse_soa(buf)
      [] typ = "NULL" -> Ok(<<"Null", buf>>)
      [] typ = "WKS" -> Panic("todo: implement wks parser")
      [] typ = "HINFO" -> parse_host_info(buf)
      [] typ = "MINFO" -> parse_mail_info(buf)
      [] typ = "MX" -> parse_mail_exchange(buf)
      [] typ = "TXT" -> parse_text(buf)
      [] OTHER -> wrap_label(buf, NameVariants[typ])

\* record_offset with the payload length left out
record_offset_without_length(offset, length) == offset + 10

\* record_offset of parse_resource_record: the name, the ten bytes of type,
\* class, ttl and length, and the payload
record_offset(offset, length) == offset + 10 + length

\* parse_resource_record after parse_label has returned named: the type,
\* class, ttl, length and payload of the record in value
parse_fields(named, value) ==
    IF named.tag = "Panic" THEN named
    ELSE IF ~IsOk(named) THEN Err(<<"Label", named.val>>)
    ELSE LET offset == named.val[2]
             buf == Drop(value, offset)
             typ == ResourceTypeTryFrom(get_u16(buf))
             class == ResourceClassTryFrom(get_u16(Drop(buf, 2)))
             length == get_u16(Drop(buf, 8))
             record(data) ==
                 IF data.tag = "Panic" THEN data
                 ELSE IF ~IsOk(data) THEN Err(<<"Data", data.val>>)
                 ELSE Ok(<<[name |-> named.val[1], class |-> class.val,
                            time_to_live |-> get_u32(Drop(buf, 4)),
                            data |-> data.val],
                           record_offset(offset, length)>>)
         IN  IF Len(buf) < 2 THEN Panic("get_u16")
             ELSE IF ~IsOk(typ) THEN Err(<<"Type", typ.val>>)
             ELSE IF Len(buf) < 4 THEN Panic("get_u16")
             ELSE IF ~IsOk(class) THEN Err(<<"Class", class.val>>)
             ELSE IF Len(buf) < 8 THEN Panic("get_u32")
             ELSE IF Len(buf) < 10 THEN Panic("get_u16")
             ELSE IF length > Len(buf) - 10
                  THEN Panic("assert length <= buf.remaining()")
             ELSE record(parse_data(typ.val, Take(Drop(buf, 10), length)))

\* parse_resource_record: Ok(<<record, consumed>>), the ResourceRecordError,
\* or a panic (Buf::get_*, the assert! on the length, a slice, todo!())
parse_resource_record(value) == parse_fields(parse_label(value), value)

\* ------------------------------------------------------------------------
\* mod.rs.  A Message is [header, questions, answers, authorities,
\* additionals].
\* ------------------------------------------------------------------------
Diverge == [tag |-> "Diverge", val |-> <<>>]

\* Message::new
MessageNew(id) ==
    [header |-> HeaderBuild(id), questions |-> <<>>, answers |-> <<>>,
     authorities |-> <<>>, additionals |-> <<>>]

\* Message::query
MessageQuery(m) == [m EXCEPT !.header.typ = Query]

\* Message::respond
MessageRespond(m) == [m EXCEPT !.header.typ = Response]

\* Message::ask: <<message afterwards, returned Result>>.  The count is
\* incremented before the name is parsed.
MessageAsk(m, name, typ, class) ==
    LET counted == [m EXCEPT !.header.question_count = @ + 1]
        parsed == LabelParse(name)
    IN  IF ~IsOk(parsed) THEN <<counted, parsed>>
        ELSE <<[counted EXCEPT !.questions =
                    Append(@, [name |-> parsed.val, typ |-> typ, class |-> class])],
               Ok(<<>>)>>

\* Message::answer
MessageAnswer(m, rr) ==
    [m EXCEPT !.header.answer_count = @ + 1, !.answers = Append(@, rr)]

\* Message::authorize
MessageAuthorize(m, rr) ==
    [m EXCEPT !.header.authority_count = @ + 1, !.authorities = Append(@, rr)]

\* Message::add
MessageAdd(m, rr) ==
    [m EXCEPT !.header.addtional_count = @ + 1, !.additionals = Append(@, rr)]

RECURSIVE ExtendAll(_, _, _)
\* for item in items { buf.extend(item.into()) }, into being QuestionInto or
\* ResourceRecordInto; a panic of one item ends the encoding
ExtendAll(buf, items, question) ==
    LET extend(bytes) ==
            IF ~IsOk(bytes) THEN bytes
            ELSE ExtendAll(buf \o bytes.val, Tail(items), question)
    IN  IF items = <<>> THEN Ok(buf)
        ELSE extend(IF question THEN QuestionInto(Head(items))
                    ELSE ResourceRecordInto(Head(items)))

\* From<Message> for Vec<u8> with the authority loop ahead of the answer loop
MessageIntoAuthoritiesFirst(value) ==
    LET answers(an) ==
            IF ~IsOk(an) THEN an ELSE ExtendAll(an.val, value.additionals, FALSE)
        authorities(au) ==
            IF ~IsOk(au) THEN au
            ELSE answers(ExtendAll(au.val, value.answers, FALSE))
        questions(q) ==
            IF ~IsOk(q) THEN q
            ELSE authorities(ExtendAll(q.val, value.authorities, FALSE))
    IN  questions(ExtendAll(HeaderInto(value.header), value.questions, TRUE))

\* impl From<Message> for Vec<u8>: Ok(bytes), or the panic of an item
MessageInto(value) ==
    LET authorities(au) ==
            IF ~IsOk(au) THEN au ELSE ExtendAll(au.val, value.additionals, FALSE)
        answers(an) ==
            IF ~IsOk(an) THEN an
            ELSE authorities(ExtendAll(an.val, value.authorities, FALSE))
        questions(q) ==
            IF ~IsOk(q) THEN q
            ELSE answers(ExtendAll(q.val, value.answers, FALSE))
    IN  questions(ExtendAll(HeaderInto(value.header), value.questions, TRUE))

RECURSIVE expand_from(_, _, _)
\* expand_label on a label whose pointers at the offsets in visited have
\* been followed already: a Sequence is left alone, a Compressed label is
\* replaced by what parse_label reads at its offset and expanded again.  An
\* offset met twice means the recursion never ends.
expand_from(label, buf, visited) ==
    IF label[1] = "Sequence" THEN Ok(label)
    ELSE LET offset == label[2]
             expanded == parse_label(Drop(buf, offset))
         IN  IF offset \in visited THEN Diverge
             ELSE IF offset > Len(buf) THEN Panic("buf[offset..]")
             ELSE IF ~IsOk(expanded) THEN Panic("false compressed offset")
             ELSE expand_from(expanded.val[1], buf, visited \cup {offset})

\* expand_label: Ok(expanded label), a panic, or Diverge
expand_label(label, buf) == expand_from(label, buf, {})

RECURSIVE parse_section(_, _, _, _, _)
\* one `for _ in 0..count` loop of Message::try_from over buf, a suffix of
\* the message value: Ok(<<items, rest of buf>>), Err, Panic or Diverge
parse_section(question, count, buf, value, items) ==
    LET expanded(item, offset, name) ==
            IF ~IsOk(name) THEN name
            ELSE IF offset > Len(buf) THEN Panic("buf[offset..]")
            ELSE parse_section(question, count - 1, Drop(buf, offset), value,
                               Append(items, [item EXCEPT !.name = name.val]))
        parsed(r) ==
            IF r.tag = "Err"
            THEN Err(<<IF question THEN "Question" ELSE "Resource", r.val>>)
            ELSE IF ~IsOk(r) THEN r
            ELSE expanded(r.val[1], r.val[2], expand_label(r.val[1].name, value))
    IN  IF count = 0 THEN Ok(<<items, buf>>)
        ELSE parsed(IF question THEN parse_question(buf)
                    ELSE parse_resource_record(buf))

RECURSIVE parse_sections(_, _, _, _)
\* the four loops of Message::try_from one after the other, counts being
\* the counts of the sections still to read and done the sections read:
\* Ok(sections), or what the first loop to fail ended with
parse_sections(counts, buf, value, done) ==
    LET read(section) ==
            IF ~IsOk(section) THEN section
            ELSE parse_sections(Tail(counts), section.val[2], value,
                                Append(done, section.val[1]))
    IN  IF counts = <<>> THEN Ok(done)
        ELSE read(parse_section(done = <<>>, Head(counts), buf, value, <<>>))

\* Message::try_from after the length check
parse_message(value) ==
    LET message(h, sections) ==
            IF ~IsOk(sections) THEN sections
            ELSE Ok([header |-> h, questions |-> sections.val[1],
                     answers |-> sections.val[2],
                     authorities |-> sections.val[3],
                     additionals |-> sections.val[4]])
        sections(header) ==
            IF ~IsOk(header) THEN Err(<<"Header", header.val>>)
            ELSE message(header.val,
                     parse_sections(<<header.val.question_count,
                                      header.val.answer_count,
                                      header.val.authority_count,
                                      header.val.addtional_count>>,
                                    Drop(value, 12), value, <<>>))
    IN  sections(HeaderTryFromSlice(Take(value, 12)))

\* Message::try_from with the length check off by one (<= 12)
MessageTryFromOffByOne(value) ==
    IF Len(value) <= 12 THEN Err(<<"ShortBuffer">>)
    ELSE parse_message(value)

\* impl TryFrom<&[u8]> for Message
MessageTryFrom(value) ==
    IF Len(value) < 12 THEN Err(<<"ShortBuffer">>)
    ELSE parse_message(value)

\* ------------------------------------------------------------------------
\* Header codec harness: either 12 raw bytes are decoded, or a Header value
\* is encoded and the bytes decoded again
\* ------------------------------------------------------------------------
SampleU16 == {0, 1, 255, 256, 1234, 65535}

SampleCounts == {<<0, 0, 0, 0>>, <<1, 0, 0, 0>>, <<1, 2, 3, 4>>, <<65535, 256, 255, 257>>}

OperationCodes ==
    {StandardQuery, InverseQuery, StatusRequest,
     Reserved(1), Reserved(3), Reserved(15), Reserved(16), Reserved(65535)}

Responses ==
    {ResponseOk} \cup {ResponseErr(e) : e \in {"Format", "ServerFailure", "Name", "NotImplemented", "Resfused"}}

\* Header values handed to the encoder
Headers ==
    {[id |-> i, typ |-> t, operation_code |-> op,
      authoritative_answer |-> f[1], truncated_message |-> f[2],
      recursion_desired |-> f[3], recursion_available |-> f[4],
      response |-> r,
      question_count |-> c[1], answer_count |-> c[2],
      authority_count |-> c[3], addtional_count |-> c[4]] :
        i \in {0, 1234, 65535}, t \in {Query, Response}, op \in OperationCodes,
        f \in [1..4 -> BOOLEAN], r \in Responses, c \in SampleCounts}

\* the inputs of the unit tests in header.rs (mod parsing)
TestVectors ==
    {<<89, 81, 1, 0, 0, 1, 0, 0, 0, 0, 0, 0>>,
     <<85, 132, 1, 0, 0, 2, 0, 0, 0, 0, 0, 0>>,
     <<189, 13, 9, 0, 0, 1, 0, 0, 0, 0, 0, 0>>,
     <<189, 13, 17, 0, 0, 1, 0, 0, 0, 0, 0, 0>>,
     <<189, 13, 25, 0, 0, 1, 0, 0, 0, 0, 0, 0>>,
     <<189, 13, 24, 0, 0, 1, 0, 0, 0, 0, 0, 0>>,
     <<4, 210, 1, 0, 0, 1, 0, 0, 0, 0, 0, 0>>}

\* 12-byte inputs of the decoder: every flags word under one id and one set
\* of counts, sample ids and counts under sample flags words, the test inputs
HeaderInputs ==
    {<<89, 81>> \o put_u16(w) \o <<0, 1, 0, 0, 0, 0, 0, 0>> : w \in 0..(U16 - 1)}
    \cup {put_u16(i) \o put_u16(w) \o put_u16(c[1]) \o put_u16(c[2]) \o put_u16(c[3]) \o put_u16(c[4]) :
            i \in SampleU16, w \in {0, 256, 33152, 34176, 6400, 65535, 112, 5}, c \in SampleCounts}
    \cup TestVectors

NoHeader == HeaderBuild(0)

HeaderIdle == hstep = "idle" /\ hdr = NoHeader /\ hbuf = <<>> /\ hres = None

BuilderIdle ==
    /\ mstep = "idle" /\ msg = MessageNew(0) /\ log = <<>>
    /\ askres = None /\ wire = None /\ back = None

DecoderIdle == dstep = "idle" /\ dbuf = <<>> /\ dres = None

NameIdle == nstep = "idle" /\ nin = <<>> /\ nbuf = <<>> /\ nres = None

ServerIdle ==
    /\ sstep = "idle" /\ sresolver = FALSE /\ sdgram = <<>> /\ smsg = MessageNew(0)
    /\ stodo = <<>> /\ sup = <<>> /\ ssent = <<>> /\ sexit = None

HeaderInit ==
    /\ BuilderIdle
    /\ DecoderIdle
    /\ NameIdle
    /\ ServerIdle
    /\ hres = None
    /\ \/ hstep = "bytes" /\ hbuf \in HeaderInputs /\ hdr = NoHeader
       \/ hstep = "header" /\ hdr \in Headers /\ hbuf = <<>>

\* let bytes: [u8; 12] = header.into()
HeaderEncode ==
    /\ hstep = "header"
    /\ hbuf' = HeaderInto(hdr)
    /\ hstep' = "encoded"
    /\ UNCHANGED <<hdr, hres, mvars, dvars, nvars, svars>>

\* Header::try_from(bytes)
HeaderDecode ==
    /\ hstep \in {"bytes", "encoded"}
    /\ hres' = HeaderTryFrom(hbuf)
    /\ hstep' = IF hstep = "bytes" THEN "decoded" ELSE "roundtrip"
    /\ UNCHANGED <<hdr, hbuf, mvars, dvars, nvars, svars>>

HeaderNext == HeaderEncode \/ HeaderDecode

SpecHeader == HeaderInit /\ [][HeaderNext]_vars

\* ------------------------------------------------------------------------
\* Builder harness: Message::new, then at most MaxCalls calls of ask,
\* answer, authorize, add, query and respond, then encode, then decode
\* ------------------------------------------------------------------------
MaxCalls == 2

Ids == {1234, 65535}

\* n bytes b
Rep(b, n) == [i \in 1..n |-> b]

\* a label of 63 bytes followed by a dot
Dotted63 == Rep(97, 63) \o <<46>>

\* "a", "ab.c", "example.com", "a..b", a 255-byte label, a 256-byte label,
\* four labels of 63 bytes
Domains ==
    {<<97>>, <<97, 98, 46, 99>>,
     <<101, 120, 97, 109, 112, 108, 101, 46, 99, 111, 109>>,
     <<97, 46, 46, 98>>, Rep(97, 255), Rep(97, 256),
     Dotted63 \o Dotted63 \o Dotted63 \o Rep(97, 63)}

QuestionKinds == {<<"A", "IN">>, <<"ALL", "Any">>}

NameA == Sequence(<<<<97>>>>)

NameMail ==
    Sequence(<<<<109, 97, 105, 108>>, <<101, 120, 97, 109, 112, 108, 101>>, <<99, 111, 109>>>>)

RR(name, class, ttl, data) ==
    [name |-> name, class |-> class, time_to_live |-> ttl, data |-> data]

\* the u32 n < 65536
Small(n) == <<0, n>>

MaxU32 == <<65535, 65535>>

\* 8.8.8.8
Ip8888 == <<2056, 2056>>

RecordA == RR(NameA, "IN", Small(60), <<"Address", Ip8888>>)

RecordTxt2 == RR(NameA, "CH", Small(0), <<"Text", <<<<97>>, <<98, 99>>>>>>)

RecordSoa ==
    RR(NameA, "IN", Small(3600),
       <<"SOA", NameA, Sequence(<<<<98>>, <<99>>>>), Small(1), Small(2), <<3, 0>>, Small(4), MaxU32>>)

\* records handed to answer
Records ==
    {RecordA, RecordTxt2, RecordSoa,
     RR(Sequence(<<>>), "HS", MaxU32, <<"NameServer", NameMail>>),
     RR(NameA, "IN", Small(1), <<"Null", <<1, 2, 3>>>>),
     RR(NameA, "IN", Small(1), <<"WKS", Ip8888, 6>>),
     RR(NameA, "CS", Small(1), <<"HostInfo", <<99>>, <<111, 115>>>>),
     RR(NameA, "IN", Small(1), <<"MailInfo", NameA, NameMail>>),
     RR(NameA, "IN", Small(1), <<"MailExchange", 10, NameMail>>),
     RR(NameA, "IN", Small(1), <<"Text", <<<<104, 105>>>>>>),
     RR(NameA, "IN", Small(1), <<"CanonicalName", Compressed(12)>>)}

\* records handed to authorize and add
FewRecords == {RecordA, RecordTxt2, RecordSoa}

BuilderInit ==
    /\ HeaderIdle
    /\ DecoderIdle
    /\ NameIdle
    /\ ServerIdle
    /\ mstep = "building"
    /\ \E id \in Ids : msg = MessageNew(id) /\ log = <<<<"new", id>>>>
    /\ askres = None
    /\ wire = None
    /\ back = None

CanCall == mstep = "building" /\ Len(log) <= MaxCalls

\* message.ask(name, typ, class)
Ask ==
    /\ CanCall
    /\ \E name \in Domains, k \in QuestionKinds :
          LET r == MessageAsk(msg, name, k[1], k[2])
          IN  /\ msg' = r[1]
              /\ askres' = r[2]
              /\ log' = Append(log, <<"ask", name, k[1], k[2]>>)
    /\ UNCHANGED <<mstep, wire, back, hvars, dvars, nvars, svars>>

\* message.answer(rr)
Answer ==
    /\ CanCall
    /\ \E rr \in Records :
          msg' = MessageAnswer(msg, rr) /\ log' = Append(log, <<"answer", rr>>)
    /\ UNCHANGED <<mstep, askres, wire, back, hvars, dvars, nvars, svars>>

\* message.authorize(rr)
Authorize ==
    /\ CanCall
    /\ \E rr \in FewRecords :
          msg' = MessageAuthorize(msg, rr) /\ log' = Append(log, <<"authorize", rr>>)
    /\ UNCHANGED <<mstep, askres, wire, back, hvars, dvars, nvars, svars>>

\* message.add(rr)
Add ==
    /\ CanCall
    /\ \E rr \in FewRecords :
          msg' = MessageAdd(msg, rr) /\ log' = Append(log, <<"add", rr>>)
    /\ UNCHANGED <<mstep, askres, wire, back, hvars, dvars, nvars, svars>>

\* message.query()
QueryCall ==
    /\ CanCall
    /\ msg' = MessageQuery(msg)
    /\ log' = Append(log, <<"query">>)
    /\ UNCHANGED <<mstep, askres, wire, back, hvars, dvars, nvars, svars>>

\* message.respond()
RespondCall ==
    /\ CanCall
    /\ msg' = MessageRespond(msg)
    /\ log' = Append(log, <<"respond">>)
    /\ UNCHANGED <<mstep, askres, wire, back, hvars, dvars, nvars, svars>>

\* let bytes: Vec<u8> = message.into()
Encode ==
    /\ mstep = "building"
    /\ wire' = MessageInto(msg)
    /\ mstep' = "encoded"
    /\ UNCHANGED <<msg, log, askres, back, hvars, dvars, nvars, svars>>

\* Message::try_from(&bytes[..])
Decode ==
    /\ mstep = "encoded"
    /\ IsOk(wire)
    /\ back' = MessageTryFrom(wire.val)
    /\ mstep' = "decoded"
    /\ UNCHANGED <<msg, log, askres, wire, hvars, dvars, nvars, svars>>

Init == BuilderInit

Next ==
    \/ Answer
    \/ Authorize
    \/ Add
    \/ Ask
    \/ QueryCall
    \/ RespondCall
    \/ Encode
    \/ Decode

Spec == Init /\ [][Next]_vars

\* ------------------------------------------------------------------------
\* Decoder harness: a datagram is handed to Message::try_from
\* ------------------------------------------------------------------------
HeaderLen == 12

MaxBody == 5

\* every buffer shorter than a header over two byte values
ShortBuffers == UNION {[1..n -> {0, 255}] : n \in 0..(HeaderLen - 1)}

\* section bytes: root / length bytes, a letter, the two bytes of a pointer
\* to offset 12
Bodies == UNION {[1..n -> {0, 1, 192, 12}] : n \in 0..MaxBody}

\* a query header (id 1, RD) with the four counts
CountsHeader(qd, an, ns, ar) == <<0, 1, 1, 0, 0, qd, 0, an, 0, ns, 0, ar>>

\* a query with two questions
SampleQuery ==
    MessageAsk(MessageAsk(MessageQuery(MessageNew(7)), <<97, 98, 46, 99>>, "A", "IN")[1],
               <<97>>, "MX", "CH")[1]

RecordMx == RR(NameA, "IN", Small(1), <<"MailExchange", 10, NameMail>>)

RecordHinfo == RR(NameA, "CS", Small(1), <<"HostInfo", <<99>>, <<111, 115>>>>)

\* a reply with two questions, two answers, an authority and an additional
SampleReply ==
    MessageAdd(MessageAuthorize(MessageAnswer(MessageAnswer(SampleQuery, RecordA),
                                              RecordMx),
                                RecordHinfo),
               RR(NameA, "IN", Small(1), <<"Null", <<1, 2, 3>>>>))

\* a reply whose first answer carries the bytes of an empty Null record as
\* its payload
SampleNested ==
    MessageAnswer(
        MessageAnswer(MessageNew(9),
            RR(Sequence(<<>>), "IN", Small(1),
               <<"Null", ResourceRecordInto(RR(Sequence(<<>>), "IN", Small(0),
                                               <<"Null", <<>>>>)).val>>)),
        RecordA)

EncodedSamples == {MessageInto(m).val : m \in {SampleQuery, SampleReply, SampleNested}}

\* every sample cut after any of its bytes from the header on
TruncatedSamples ==
    UNION {{Take(b, n) : n \in HeaderLen..Len(b)} : b \in EncodedSamples}

\* one record with the root name, class IN and ttl 60: an A record with a
\* payload of 2 bytes, an MX record with a payload of 1 byte, an A record
\* whose length field says 9 with 2 bytes left, a WKS record, a CNAME record
\* and an MX record whose name in the payload is a pointer to offset 12
OddRecords ==
    {CountsHeader(0, 1, 0, 0) \o <<0, 0, t[1], 0, 1, 0, 0, 0, 60, 0, t[2]>> \o t[3] :
        t \in {<<1, 2, <<8, 8>>>>, <<15, 1, <<0>>>>, <<1, 9, <<8, 8>>>>,
               <<11, 0, <<>>>>, <<11, 5, <<8, 8, 8, 8, 6>>>>,
               <<5, 2, <<192, 12>>>>, <<15, 4, <<0, 10, 192, 12>>>>}}

Datagrams ==
    ShortBuffers
    \cup {Rep(0, HeaderLen)}
    \cup {CountsHeader(c[1], c[2], c[3], c[4]) \o b :
            c \in {<<0, 0, 0, 0>>, <<1, 0, 0, 0>>, <<0, 1, 0, 0>>}, b \in Bodies}
    \cup TruncatedSamples
    \cup OddRecords

DecoderInit ==
    /\ HeaderIdle
    /\ BuilderIdle
    /\ NameIdle
    /\ ServerIdle
    /\ dstep = "input"
    /\ dbuf \in Datagrams
    /\ dres = None

\* Message::try_from(&buf[..size])
DecodeDatagram ==
    /\ dstep = "input"
    /\ dres' = MessageTryFrom(dbuf)
    /\ dstep' = "decoded"
    /\ UNCHANGED <<dbuf, hvars, mvars, nvars, svars>>

DecoderNext == DecodeDatagram

SpecDecode == DecoderInit /\ [][DecoderNext]_vars

\* ------------------------------------------------------------------------
\* Name harness: a Label is encoded and parsed again, an MX payload is
\* encoded and parsed again, or expand_label is applied to a pointer and a
\* message buffer
\* ------------------------------------------------------------------------
\* the root, "a", "mail.example.com", single labels of 63, 64, 191, 192 and
\* 255 bytes, a name of 255 bytes on the wire and one of 257
NameInputs ==
    {Sequence(<<>>), NameA, NameMail}
    \cup {Sequence(<<Rep(97, n)>>) : n \in {63, 64, 191, 192, 255}}
    \cup {Sequence(<<Rep(97, 63), Rep(98, 63), Rep(99, 63), Rep(100, n)>>) : n \in {61, 63}}

MxInputs ==
    {<<"MailExchange", p, n>> :
        p \in {0, 10, 256, 65535},
        n \in {Sequence(<<>>), NameA, NameMail, Sequence(<<Rep(97, 63)>>),
               Sequence(<<Rep(97, 192)>>),
               Sequence(<<Rep(97, 63), Rep(98, 63), Rep(99, 63), Rep(100, 61)>>)}}

\* message buffers: a header of zeros, then from offset 12 on
\*   "a" and a pointer to it; "a", a pointer to it and a pointer to that;
\*   "a.b", type and class, a pointer to offset 12, type and class;
\*   a pointer to itself; two pointers to each other;
\*   "a" followed by 256 further bytes; a length byte without its label
PointerBuffers ==
    {Rep(0, HeaderLen) \o b :
        b \in {<<1, 97, 0, 192, 12>>,
               <<1, 97, 0, 192, 12, 192, 15>>,
               <<1, 97, 1, 98, 0, 0, 1, 0, 1, 192, 12, 0, 1, 0, 1>>,
               <<192, 12>>,
               <<192, 14, 192, 12>>,
               <<1, 97, 0>> \o Rep(0, 256),
               <<5, 97>>}}

PointerInputs == {Compressed(k) : k \in {12, 14, 15, 17, 21, 100}}

\* buffers handed to parse_label: pointers alone and followed by 1, 4 and
\* 300 bytes; "a" and "a.bc" followed by a pointer and by further bytes;
\* the root, "a", "a.bc" and a label of 191 bytes, ended by a zero byte and
\* followed by 0, 1, 4, 250 and 300 bytes; a name without its zero byte
LabelBuffers ==
    {p \o Rep(7, k) : p \in {<<192, 12>>, <<255, 255>>, <<193, 7>>}, k \in {0, 1, 4, 300}}
    \cup {<<192>>}
    \cup {n \o <<192, 12>> \o Rep(0, k) :
            n \in {<<1, 97>>, <<1, 97, 2, 98, 99>>}, k \in {0, 4, 200}}
    \cup {n \o <<0>> \o Rep(7, k) :
            n \in {<<>>, <<1, 97>>, <<1, 97, 2, 98, 99>>, <<191>> \o Rep(97, 191)},
            k \in {0, 1, 4, 250, 300}}
    \cup {<<3, 97, 98>>}

\* buffers handed to Question::try_from: the root, "a" and "a.bc" followed
\* by nothing, by 1 to 3 bytes, by a type and a class, and by one byte more;
\* a label that is not UTF-8, a label of two UTF-8 bytes, a name cut short
QuestionBuffers ==
    {n \o <<0>> \o t : n \in {<<>>, <<1, 97>>, <<1, 97, 2, 98, 99>>},
                       t \in {<<>>, <<0>>, <<0, 1>>, <<0, 1, 0>>, <<1, 0, 0, 1>>}}
    \cup {n \o <<0>> \o put_u16(t) \o put_u16(c) \o x :
            n \in {<<>>, <<1, 97>>}, t \in {0, 1, 16, 17, 251, 252, 255, 256},
            c \in {0, 1, 4, 5, 254, 255, 256}, x \in {<<>>, <<9>>}}
    \cup {<<1, 255, 0, 0, 1, 0, 1>>, <<2, 195, 169, 0, 0, 1, 0, 1>>, <<2, 195, 0, 0, 1, 0, 1>>,
          <<1, 97>>, <<5, 97, 0, 0, 1, 0, 1>>}

\* buffers handed to parse_resource_record: an owner name (the root, "a", a
\* pointer to offset 12), a type, class IN or CH, ttl 60, a length and a
\* payload, followed by 0, 1 or 300 further bytes
RecordBuffers ==
    {n \o put_u16(t[1]) \o <<0, c, 0, 0, 0, 60>> \o put_u16(Len(t[2])) \o t[2] \o Rep(5, k) :
        n \in {<<0>>, <<1, 97, 0>>, <<192, 12>>},
        t \in {<<1, <<8, 8, 8, 8>>>>, <<10, <<>>>>, <<10, <<1, 2, 3>>>>,
               <<16, <<1, 97>>>>, <<5, <<1, 98, 0>>>>, <<15, <<0, 10, 0>>>>,
               <<13, <<1, 99, 0>>>>, <<2, <<0>>>>},
        c \in {1, 3},
        k \in {0, 1, 300}}

\* SOA and TXT payloads to encode and decode
PayloadInputs ==
    {<<"SOA", n, m, Small(v[1]), Small(v[2]), <<v[3], 0>>, Small(v[4]), MaxU32>> :
        n \in {Sequence(<<>>), NameA}, m \in {Sequence(<<>>), NameMail},
        v \in {<<0, 0, 0, 0>>, <<1, 2, 3, 4>>, <<65535, 256, 1, 0>>}}
    \cup {<<"Text", t>> :
            t \in {<<<<97>>>>, <<<<97>>, <<97>>>>, <<<<97>>, <<98>>>>, <<<<97>>, <<98, 99>>>>,
                   <<<<97, 98>>, <<99>>>>, <<<<>>, <<97>>>>, <<<<97>>, <<98>>, <<99>>>>,
                   <<Rep(97, 255)>>, <<Rep(97, 200), Rep(98, 100)>>}}

NameInit ==
    /\ HeaderIdle
    /\ BuilderIdle
    /\ DecoderIdle
    /\ ServerIdle
    /\ nres = None
    /\ \/ nstep = "name" /\ nin \in NameInputs /\ nbuf = <<>>
       \/ nstep = "mx" /\ nin \in MxInputs /\ nbuf = <<>>
       \/ nstep = "pointer" /\ nin \in PointerInputs /\ nbuf \in PointerBuffers
       \/ nstep = "label" /\ nin = <<>> /\ nbuf \in LabelBuffers
       \/ nstep = "question" /\ nin = <<>> /\ nbuf \in QuestionBuffers
       \/ nstep = "record" /\ nin = <<>> /\ nbuf \in RecordBuffers
       \/ nstep = "payload" /\ nin \in PayloadInputs /\ nbuf = <<>>

\* let bytes: Vec<u8> = label.into()
NameEncode ==
    /\ nstep = "name"
    /\ nbuf' = LabelInto(nin)
    /\ nstep' = "name bytes"
    /\ UNCHANGED <<nin, nres, hvars, mvars, dvars, svars>>

\* parse_label(&bytes)
NameDecode ==
    /\ nstep = "name bytes"
    /\ nres' = parse_label(nbuf)
    /\ nstep' = "name parsed"
    /\ UNCHANGED <<nin, nbuf, hvars, mvars, dvars, svars>>

\* let bytes: Vec<u8> = ResourceData::MailExchange { .. }.into()
MxEncode ==
    /\ nstep = "mx"
    /\ nbuf' = ResourceDataInto(nin).val
    /\ nstep' = "mx bytes"
    /\ UNCHANGED <<nin, nres, hvars, mvars, dvars, svars>>

\* ResourceData::parse_mail_exchange(&bytes)
MxDecode ==
    /\ nstep = "mx bytes"
    /\ nres' = parse_mail_exchange(nbuf)
    /\ nstep' = "mx parsed"
    /\ UNCHANGED <<nin, nbuf, hvars, mvars, dvars, svars>>

\* expand_label(&mut label, buf)
ExpandName ==
    /\ nstep = "pointer"
    /\ nres' = expand_label(nin, nbuf)
    /\ nstep' = "expanded"
    /\ UNCHANGED <<nin, nbuf, hvars, mvars, dvars, svars>>

\* parse_label(buf) on a buffer that holds more than the name
LabelDecode ==
    /\ nstep = "label"
    /\ nres' = parse_label(nbuf)
    /\ nstep' = "label parsed"
    /\ UNCHANGED <<nin, nbuf, hvars, mvars, dvars, svars>>

\* Question::try_from(buf)
QuestionDecode ==
    /\ nstep = "question"
    /\ nres' = QuestionTryFrom(nbuf)
    /\ nstep' = "question parsed"
    /\ UNCHANGED <<nin, nbuf, hvars, mvars, dvars, svars>>

\* parse_resource_record(buf)
RecordDecode ==
    /\ nstep = "record"
    /\ nres' = parse_resource_record(nbuf)
    /\ nstep' = "record parsed"
    /\ UNCHANGED <<nin, nbuf, hvars, mvars, dvars, svars>>

\* let bytes: Vec<u8> = data.into() for an SOA or TXT payload
PayloadEncode ==
    /\ nstep = "payload"
    /\ nbuf' = ResourceDataInto(nin).val
    /\ nstep' = "payload bytes"
    /\ UNCHANGED <<nin, nres, hvars, mvars, dvars, svars>>

\* the payload parser parse_resource_record picks for the type, applied to
\* the payload bytes
PayloadDecode ==
    /\ nstep = "payload bytes"
    /\ nres' = parse_data(DataTyp(nin), nbuf)
    /\ nstep' = "payload parsed"
    /\ UNCHANGED <<nin, nbuf, hvars, mvars, dvars, svars>>

NameNext ==
    \/ NameEncode
    \/ NameDecode
    \/ MxEncode
    \/ MxDecode
    \/ ExpandName
    \/ LabelDecode
    \/ QuestionDecode
    \/ RecordDecode
    \/ PayloadEncode
    \/ PayloadDecode

SpecName == NameInit /\ [][NameNext]_vars

\* ------------------------------------------------------------------------
\* main.rs: the server loop, quick_reply and forward_message.  The sockets
\* are the environment: what recv_from hands over is drawn from a set, and
\* every socket call may fail.
\* ------------------------------------------------------------------------
MaxDatagrams == 2

\* the match on operation_code that sets the response code
set_response(message) ==
    [message EXCEPT !.header.response =
        IF message.header.operation_code = StandardQuery THEN ResponseOk
        ELSE ResponseErr("NotImplemented")]

RECURSIVE answer_all(_, _)
\* quick_reply's answer to every question, in order
answer_all(message, questions) ==
    IF questions = <<>> THEN message
    ELSE answer_all(MessageAnswer(message,
                        RR(Head(questions).name, "IN", Small(60), <<"Address", Ip8888>>)),
                    Tail(questions))

\* quick_reply: Ok(message), or what Message::try_from failed with
quick_reply(buf) ==
    LET decoded(r) ==
            IF ~IsOk(r) THEN r
            ELSE Ok(answer_all(set_response(r.val), r.val.questions))
    IN  decoded(MessageTryFrom(buf))

\* main's encoding of the response with message.respond() left out
encode_response_without_respond(message) == MessageInto(message)

\* message.respond(); let response: Vec<u8> = message.into()
encode_response(message) == MessageInto(MessageRespond(message))

\* the Message forward_message sends to the resolver for one question
question_message(header, question) ==
    [header |-> [header EXCEPT !.question_count = 1], questions |-> <<question>>,
     answers |-> <<>>, authorities |-> <<>>, additionals |-> <<>>]

\* a failed socket call inside forward_message, returned through `?`
IoError == Err(<<"io">>)

\* a datagram with the given id, opcode field, RD flag and questions
QueryBytes(id, opcode, rd, questions) ==
    ExtendAll(<<id \div 256, id % 256, opcode * 8 + rd, 0, 0, Len(questions),
                0, 0, 0, 0, 0, 0>>,
              questions, TRUE).val

QuestionLists ==
    {<<>>,
     <<[name |-> NameA, typ |-> "A", class |-> "IN"]>>,
     <<[name |-> NameMail, typ |-> "MX", class |-> "IN"],
       [name |-> NameA, typ |-> "A", class |-> "IN"]>>}

\* what recv_from hands to main: queries, a datagram shorter than a header,
\* a header that announces a question that is not there, a header that
\* announces a record of which only the name is there
ServerDatagrams ==
    {QueryBytes(id, op, rd, qs) :
        id \in {1, 22865}, op \in {0, 1, 15}, rd \in {0, 1}, qs \in QuestionLists}
    \cup {<<1, 2, 3>>, CountsHeader(1, 0, 0, 0), CountsHeader(0, 1, 0, 0) \o <<0>>}

\* what the resolver's socket hands to forward_message: a reply with one
\* answer, a reply without answers, a datagram shorter than a header
ResolverDatagrams ==
    {MessageInto(MessageAnswer(MessageAsk(MessageNew(77), <<97>>, "A", "IN")[1],
                               RecordA)).val,
     MessageInto(MessageAsk(MessageNew(78), <<97>>, "A", "IN")[1]).val,
     <<0>>}

ServerInit ==
    /\ HeaderIdle
    /\ BuilderIdle
    /\ DecoderIdle
    /\ NameIdle
    /\ sstep = "recv"
    /\ sresolver \in BOOLEAN
    /\ sdgram = <<>>
    /\ smsg = MessageNew(0)
    /\ stodo = <<>>
    /\ sup = <<>>
    /\ ssent = <<>>
    /\ sexit = None

\* Exit with the loop going on to the next recv_from
ExitKeepsReceiving(what) ==
    /\ sstep' = "recv"
    /\ sexit' = what
    /\ UNCHANGED <<sresolver, smsg, stodo, sup, ssent>>

\* main returns or aborts with what
Exit(what) ==
    /\ sstep' = "exited"
    /\ sexit' = what
    /\ UNCHANGED <<sresolver, smsg, stodo, sup, ssent>>

\* message.respond(), message.into() and send_to(&response, source) for the
\* message that answers the datagram query
Respond(query, message, sendok) ==
    LET send(bytes) ==
            IF ~IsOk(bytes) THEN Exit(bytes)
            ELSE IF ~sendok THEN Exit(Panic("Failed to send response"))
            ELSE /\ ssent' = Append(ssent, <<query, bytes.val>>)
                 /\ sstep' = "recv"
                 /\ UNCHANGED <<sresolver, smsg, stodo, sup, sexit>>
    IN  send(encode_response(message))

\* one round of the loop without --resolver: recv_from, quick_reply,
\* respond, send_to
ReceiveQuick ==
    /\ sstep = "recv"
    /\ ~sresolver
    /\ Len(ssent) < MaxDatagrams
    /\ \E d \in ServerDatagrams, sendok \in BOOLEAN :
          LET handled(r) == IF ~IsOk(r) THEN Exit(r) ELSE Respond(d, r.val, sendok)
          IN  sdgram' = d /\ handled(quick_reply(d))
    /\ UNCHANGED <<hvars, mvars, dvars, nvars>>

\* socket.send(&Vec::from(question_message)): the first of the messages in
\* todo goes to the resolver, then forward_message waits in recv_from
Forward(message, todo) ==
    LET sent(bytes) ==
            IF ~IsOk(bytes) THEN Exit(bytes)
            ELSE /\ sup' = Append(sup, bytes.val)
                 /\ sstep' = "forwarding"
                 /\ smsg' = message
                 /\ stodo' = todo
                 /\ UNCHANGED <<sresolver, ssent, sexit>>
    IN  sent(MessageInto(Head(todo)))

\* one round of the loop with --resolver, up to the first recv_from on the
\* resolver's socket: recv_from, Message::try_from, UdpSocket::bind, and
\* either the first socket.send or, without questions, the response
ReceiveForward ==
    /\ sstep = "recv"
    /\ sresolver
    /\ Len(ssent) < MaxDatagrams
    /\ \E d \in ServerDatagrams, bindok \in BOOLEAN, sendok \in BOOLEAN :
          LET handled(r) ==
                  IF ~IsOk(r) THEN Exit(r)
                  ELSE IF ~bindok THEN Exit(IoError)
                  ELSE IF r.val.questions = <<>>
                       THEN Respond(d, set_response(r.val), sendok)
                  ELSE IF ~sendok THEN Exit(IoError)
                  ELSE Forward(r.val,
                               [i \in 1..Len(r.val.questions) |->
                                   question_message(r.val.header, r.val.questions[i])])
          IN  sdgram' = d /\ handled(MessageTryFrom(d))
    /\ UNCHANGED <<hvars, mvars, dvars, nvars>>

\* the rest of one round of forward_message's loop: recv_from on the
\* resolver's socket, Message::try_from, reply.answers.pop().unwrap(),
\* message.answer, and either the next socket.send or the response
ResolverReply ==
    /\ sstep = "forwarding"
    /\ \E b \in ResolverDatagrams, sendok \in BOOLEAN :
          LET answered(message) ==
                  IF Len(stodo) = 1 THEN Respond(sdgram, set_response(message), sendok)
                  ELSE IF ~sendok THEN Exit(IoError)
                  ELSE Forward(message, Tail(stodo))
              replied(reply) ==
                  IF ~IsOk(reply) THEN Exit(reply)
                  ELSE IF reply.val.answers = <<>>
                       THEN Exit(Panic("called Option::unwrap() on a None value"))
                  ELSE answered(MessageAnswer(smsg,
                                    reply.val.answers[Len(reply.val.answers)]))
          IN  replied(MessageTryFrom(b))
    /\ UNCHANGED <<sdgram, hvars, mvars, dvars, nvars>>

\* recv_from fails: on the resolver's socket forward_message returns the
\* error, on the server's socket main leaves the loop and returns Ok(())
ReceiveError ==
    /\ sstep \in {"recv", "forwarding"}
    /\ Exit(IF sstep = "forwarding" THEN IoError ELSE Ok(<<>>))
    /\ UNCHANGED <<sdgram, hvars, mvars, dvars, nvars>>

ServerNext ==
    \/ ReceiveQuick
    \/ ReceiveForward
    \/ ResolverReply
    \/ ReceiveError

SpecServer == ServerInit /\ [][ServerNext]_vars

\* ------------------------------------------------------------------------
\* Properties of the header codec (checked under SpecHeader)
\* ------------------------------------------------------------------------
\* bit i of the word w, bit 0 being the least significant
Bit(w, i) == (w \div (2 ^ i)) % 2

\* the big-endian word of bytes 2-3 of the decoder's input
FlagsWord == hbuf[3] * 256 + hbuf[4]

\* bits 14-11 of the flags word
OpField == (FlagsWord \div 2048) % 16

\* bits 6-4 of the flags word
ZField == (FlagsWord \div 16) % 8

\* bits 3-0 of the flags word
RcodeField == FlagsWord % 16

OpOf(n) ==
    IF n = 0 THEN StandardQuery
    ELSE IF n = 1 THEN InverseQuery
    ELSE IF n = 2 THEN StatusRequest
    ELSE Reserved(n)

ResponseOf(n) ==
    IF n = 0 THEN ResponseOk
    ELSE IF n = 1 THEN ResponseErr("Format")
    ELSE IF n = 2 THEN ResponseErr("ServerFailure")
    ELSE IF n = 3 THEN ResponseErr("Name")
    ELSE IF n = 4 THEN ResponseErr("NotImplemented")
    ELSE ResponseErr("Resfused")

\* C4: a Header with a non-reserved operation code, any id, counts, flags,
\* type and response status is returned unchanged by encode followed by decode
C4_HeaderRoundTrip ==
    (hstep = "roundtrip" /\ hdr.operation_code \in {StandardQuery, InverseQuery, StatusRequest})
        => hres = Ok(hdr)

C4_Witness ==
    /\ hstep = "roundtrip"
    /\ hdr.operation_code = StatusRequest
    /\ hdr.response = ResponseErr("Resfused")
    /\ hdr.typ = Response
    /\ hdr.recursion_available
    /\ ~hdr.truncated_message
    /\ hdr.addtional_count = 257
    /\ hres = Ok(hdr)

\* C5: every accepted 12-byte input decodes field by field according to the
\* bit layout of RFC 1035 4.1.1, and the test input [89,81,1,0,0,1,0,...]
\* decodes to id 22865, Query, StandardQuery, only RD set, ok, QDCOUNT 1
C5_HeaderLayout ==
    (hstep = "decoded")
        => /\ IsOk(hres) =>
                LET h == hres.val
                    w == FlagsWord
                IN  /\ h.id = hbuf[1] * 256 + hbuf[2]
                    /\ h.typ = (IF Bit(w, 15) = 1 THEN Response ELSE Query)
                    /\ h.operation_code = OpOf(OpField)
                    /\ h.authoritative_answer = (Bit(w, 10) = 1)
                    /\ h.truncated_message = (Bit(w, 9) = 1)
                    /\ h.recursion_desired = (Bit(w, 8) = 1)
                    /\ h.recursion_available = (Bit(w, 7) = 1)
                    /\ RcodeField <= 5
                    /\ h.response = ResponseOf(RcodeField)
                    /\ h.question_count = hbuf[5] * 256 + hbuf[6]
                    /\ h.answer_count = hbuf[7] * 256 + hbuf[8]
                    /\ h.authority_count = hbuf[9] * 256 + hbuf[10]
                    /\ h.addtional_count = hbuf[11] * 256 + hbuf[12]
           /\ hbuf = <<89, 81, 1, 0, 0, 1, 0, 0, 0, 0, 0, 0>> =>
                hres = Ok([id |-> 22865, typ |-> Query, operation_code |-> StandardQuery,
                           authoritative_answer |-> FALSE, truncated_message |-> FALSE,
                           recursion_desired |-> TRUE, recursion_available |-> FALSE,
                           response |-> ResponseOk, question_count |-> 1,
                           answer_count |-> 0, authority_count |-> 0, addtional_count |-> 0])

C5_Witness ==
    /\ hstep = "decoded"
    /\ hbuf = <<89, 81, 1, 0, 0, 1, 0, 0, 0, 0, 0, 0>>
    /\ IsOk(hres)
    /\ hres.val.id = 22865
    /\ hres.val.recursion_desired

ClearOpcode(b) == [b EXCEPT ![3] = b[3] - 8 * ((b[3] \div 8) % 16)]

C8_ResponseCodeMapping ==
    (hstep = "decoded")
        => /\ RcodeField = 0 => (IsOk(hres) /\ hres.val.response = <<"Ok">>)
           /\ RcodeField = 1 => (IsOk(hres) /\ hres.val.response = <<"Err", "Format">>)
           /\ RcodeField = 2 => (IsOk(hres) /\ hres.val.response = <<"Err", "ServerFailure">>)
           /\ RcodeField = 3 => (IsOk(hres) /\ hres.val.response = <<"Err", "Name">>)
           /\ RcodeField = 4 => (IsOk(hres) /\ hres.val.response = <<"Err", "NotImplemented">>)
           /\ RcodeField = 5 => (IsOk(hres) /\ hres.val.response = <<"Err", "Resfused">>)
           /\ RcodeField \in 6..15 => hres = Err(<<"ReservedResponseCode", RcodeField>>)

C8_Witness ==
    /\ hstep = "decoded"
    /\ RcodeField = 9
    /\ OpField = 5
    /\ ZField = 3
    /\ hres = Err(<<"ReservedResponseCode", 9>>)

\* C9 as stated: a non-zero Z field (bits 6-4) makes header decode fail with
\* ReservedZFlag and no Header is returned
C9_ZFlagRejected ==
    (hstep = "decoded" /\ ZField # 0)
        => (hres.tag = "Err" /\ hres.val[1] = "ReservedZFlag")

\* C29 as stated: in the flags word of an encoded Header bit 15 is the
\* packet type, bits 10-7 the AA, TC, RD and RA flags, bits 6-4 zero and
\* bits 3-0 the response code, whatever the operation code
C29_FlagsFieldsConfined ==
    (hstep = "encoded")
        => /\ Bit(FlagsWord, 15) = PacketTypeToU16(hdr.typ)
           /\ Bit(FlagsWord, 10) = BoolToU16(hdr.authoritative_answer)
           /\ Bit(FlagsWord, 9) = BoolToU16(hdr.truncated_message)
           /\ Bit(FlagsWord, 8) = BoolToU16(hdr.recursion_desired)
           /\ Bit(FlagsWord, 7) = BoolToU16(hdr.recursion_available)
           /\ ZField = 0
           /\ RcodeField = (IF hdr.response = ResponseOk THEN 0
                            ELSE HeaderErrorCode(hdr.response[2]))

\* ------------------------------------------------------------------------
\* Properties of the Message builder and codec (checked under Spec)
\* ------------------------------------------------------------------------
\* the labels a record carries: its owner name and the names in its payload
LabelsOfRecord(rr) ==
    LET d == rr.data
    IN  {rr.name} \cup
        (CASE d[1] \in {"SOA", "MailInfo"} -> {d[2], d[3]}
           [] d[1] = "MailExchange" -> {d[3]}
           [] d[1] \in {"Address", "Null", "WKS", "HostInfo", "Text"} -> {}
           [] OTHER -> {d[2]})

RecordsOf(m) ==
    {m.answers[i] : i \in 1..Len(m.answers)}
        \cup {m.authorities[i] : i \in 1..Len(m.authorities)}
        \cup {m.additionals[i] : i \in 1..Len(m.additionals)}

PointerFree(m) ==
    /\ \A i \in 1..Len(m.questions) : m.questions[i].name[1] = "Sequence"
    /\ \A rr \in RecordsOf(m) : \A l \in LabelsOfRecord(rr) : l[1] = "Sequence"

NoWKS(m) == \A rr \in RecordsOf(m) : rr.data[1] # "WKS"

CountsMatch(m) ==
    /\ m.header.question_count = Len(m.questions)
    /\ m.header.answer_count = Len(m.answers)
    /\ m.header.authority_count = Len(m.authorities)
    /\ m.header.addtional_count = Len(m.additionals)

\* C1 as stated: a Message without compression pointers and WKS payloads
\* whose header counts equal its section lengths is returned unchanged by
\* encode followed by decode
C1_MessageRoundTrip ==
    (mstep = "decoded" /\ PointerFree(msg) /\ NoWKS(msg) /\ CountsMatch(msg))
        => back = Ok(msg)

\* every dot-separated part of the domain is a label of 1..255 bytes
LabelsOnly(domain) ==
    LET parts == SplitDots(domain, 1)
    IN  \A i \in 1..Len(parts) : Len(parts[i]) \in 1..255

\* C2 as stated: after new(id) and ask(domain, typ, class), the domain being
\* made of labels, encode followed by decode gives a message with exactly
\* one question, which has the name, type and class passed to ask
C2_AskRoundTrip ==
    (mstep = "decoded" /\ Len(log) = 2 /\ log[2][1] = "ask" /\ LabelsOnly(log[2][2]))
        => /\ IsOk(back)
           /\ Len(back.val.questions) = 1
           /\ back.val.questions[1] =
                [name |-> Sequence(SplitDots(log[2][2], 1)), typ |-> log[2][3],
                 class |-> log[2][4]]

\* C3 as stated: after new and any sequence of ask, answer, authorize and
\* add calls, failed ask calls included, the four header counts equal the
\* lengths of the four sections
C3_CountsLockstep == (mstep = "building") => CountsMatch(msg)

RECURSIVE Concat(_)
\* the byte sequences of seqs one after the other
Concat(seqs) == IF seqs = <<>> THEN <<>> ELSE Head(seqs) \o Concat(Tail(seqs))

\* the encodings of the records of a section, in list order
SectionBytes(records) ==
    Concat([i \in 1..Len(records) |-> ResourceRecordInto(records[i]).val])

\* the big-endian u16 at bytes i, i + 1 (counted from 0) of b
WordAt(b, i) == b[i + 1] * 256 + b[i + 2]

\* C13: the bytes Message encode produces are the 12 header bytes, then the
\* questions, the answers, the authorities and the additionals in list
\* order and nothing else; the count fields are the header's stored counts
C13_EncodeLayout ==
    (mstep \in {"encoded", "decoded"} /\ IsOk(wire)) =>
        /\ wire.val =
              HeaderInto(msg.header)
                  \o Concat([i \in 1..Len(msg.questions) |->
                                QuestionInto(msg.questions[i]).val])
                  \o SectionBytes(msg.answers)
                  \o SectionBytes(msg.authorities)
                  \o SectionBytes(msg.additionals)
        /\ WordAt(wire.val, 4) = msg.header.question_count
        /\ WordAt(wire.val, 6) = msg.header.answer_count
        /\ WordAt(wire.val, 8) = msg.header.authority_count
        /\ WordAt(wire.val, 10) = msg.header.addtional_count

C13_Witness ==
    /\ mstep = "encoded"
    /\ IsOk(wire)
    /\ Len(msg.answers) = 1
    /\ Len(msg.authorities) = 1
    /\ msg.answers[1] # msg.authorities[1]
    /\ Len(wire.val) > HeaderLen

\* C18 as stated: encoding a message that carries a ResourceData::WKS
\* value hands an error value back to the caller
C18_WksEncodeError ==
    (mstep = "encoded" /\ ~NoWKS(msg)) => wire.tag = "Err"

\* ------------------------------------------------------------------------
\* Properties of Message decode (checked under SpecDecode)
\* ------------------------------------------------------------------------
\* C10: every buffer of 0..11 bytes fails to decode with ShortBuffer, and
\* twelve zero bytes decode to id 0, Query, StandardQuery, no flag, status
\* ok, four zero counts and four empty sections
C10_ShortBufferBoundary ==
    (dstep = "decoded")
        => /\ Len(dbuf) < 12 => dres = Err(<<"ShortBuffer">>)
           /\ dbuf = <<0, 0, 0, 0, 0, 0, 0, 0, 0, 0, 0, 0>> =>
                dres = Ok([header |->
                             [id |-> 0, typ |-> "Query",
                              operation_code |-> <<"StandardQuery">>,
                              authoritative_answer |-> FALSE, truncated_message |-> FALSE,
                              recursion_desired |-> FALSE, recursion_available |-> FALSE,
                              response |-> <<"Ok">>, question_count |-> 0,
                              answer_count |-> 0, authority_count |-> 0,
                              addtional_count |-> 0],
                           questions |-> <<>>, answers |-> <<>>, authorities |-> <<>>,
                           additionals |-> <<>>])

C10_Witness ==
    /\ dstep = "decoded"
    /\ dbuf = <<0, 0, 0, 0, 0, 0, 0, 0, 0, 0, 0, 0>>
    /\ IsOk(dres)
    /\ dres.val.header.typ = "Query"
    /\ dres.val.questions = <<>>

\* C11 as stated: Message decode of every byte sequence returns Ok or Err;
\* it never aborts
C11_TotalDecode == (dstep = "decoded") => dres.tag \in {"Ok", "Err"}

RECURSIVE NameEnd(_, _)
\* index of the last byte of the name that starts at index i of b: its zero
\* byte, or the second byte of a pointer; 0 if b ends first
NameEnd(b, i) ==
    IF i > Len(b) THEN 0
    ELSE IF b[i] = 0 THEN i
    ELSE IF b[i] >= 192 THEN i + 1
    ELSE NameEnd(b, i + b[i] + 1)

\* index of the last byte of the question or record that starts at index i
ItemEnd(question, b, i) ==
    LET e == NameEnd(b, i)
    IN  IF question THEN e + 4 ELSE e + 10 + (b[e + 9] * 256 + b[e + 10])

RECURSIVE ItemStarts(_, _, _)
\* the indices at which consecutive items start, kinds[j] telling whether
\* item j is a question
ItemStarts(b, kinds, i) ==
    IF kinds = <<>> THEN <<>>
    ELSE <<i>> \o ItemStarts(b, Tail(kinds), ItemEnd(Head(kinds), b, i) + 1)

\* the item the parser reads at index i of b
ItemAt(question, b, i) ==
    IF question THEN parse_question(Drop(b, i - 1))
    ELSE parse_resource_record(Drop(b, i - 1))

\* C12: a successful Message decode returns as many questions, answers,
\* authorities and additionals as the header counts say, in that order,
\* the first read at byte 12 and each later one right after the last byte
\* of the one before
C12_SectionCursor ==
    (dstep = "decoded" /\ IsOk(dres)) =>
        LET m == dres.val
            items == m.questions \o m.answers \o m.authorities \o m.additionals
            kinds == [j \in 1..Len(items) |-> j <= Len(m.questions)]
            starts == ItemStarts(dbuf, kinds, HeaderLen + 1)
        IN  /\ CountsMatch(m)
            /\ m.header = HeaderTryFromSlice(Take(dbuf, HeaderLen)).val
            /\ \A j \in 1..Len(items) :
                  ItemAt(kinds[j], dbuf, starts[j]) =
                      Ok(<<items[j], ItemEnd(kinds[j], dbuf, starts[j]) - starts[j] + 1>>)

C12_Witness ==
    /\ dstep = "decoded"
    /\ IsOk(dres)
    /\ Len(dres.val.questions) = 2
    /\ Len(dres.val.answers) = 2
    /\ Len(dres.val.authorities) = 1
    /\ Len(dres.val.additionals) = 1
    /\ dres.val.additionals[1].data = <<"Null", <<1, 2, 3>>>>

\* the record type of a datagram that holds a header and one record with
\* the root name
OneRecordType(b) == WordAt(b, HeaderLen + 1)

\* C18 as stated: decoding a record whose TYPE is 11 (WKS) hands an error
\* value back to the caller
C18_WksDecodeError ==
    (dstep = "decoded" /\ dbuf \in OddRecords /\ OneRecordType(dbuf) = 11)
        => dres.tag = "Err"

\* the first name of the first item of a datagram is a pointer
FirstNameIsPointer(b) ==
    /\ Len(b) >= HeaderLen + 2
    /\ b[HeaderLen + 1] >= 192
    /\ \E i \in {4, 6, 8, 10} : WordAt(b, i) > 0

\* C16 as stated: a pointer whose offset is not before the start of the
\* name that holds it makes Message decode return an error value
C16_BadPointerIsError ==
    (dstep = "decoded" /\ FirstNameIsPointer(dbuf)
        /\ WordAt(dbuf, HeaderLen) - 49152 >= HeaderLen)
        => dres.tag = "Err"

\* C21 as stated: after a successful Message decode no owner name and no
\* name inside a payload is a compression pointer
C21_NamesExpanded ==
    (dstep = "decoded" /\ IsOk(dres)) => PointerFree(dres.val)

\* ------------------------------------------------------------------------
\* Properties of names, pointers and MX payloads (checked under SpecName)
\* ------------------------------------------------------------------------
RECURSIVE PointerFreeNameAt(_, _)
\* b holds, from index i on, length-prefixed labels ended by a zero byte
PointerFreeNameAt(b, i) ==
    /\ i <= Len(b)
    /\ \/ b[i] = 0
       \/ b[i] < 192 /\ PointerFreeNameAt(b, i + b[i] + 1)

RECURSIVE LabelsAt(_, _)
\* the labels of the pointer-free name at index i of b
LabelsAt(b, i) ==
    IF b[i] = 0 THEN <<>>
    ELSE <<SubSeq(b, i + 1, i + b[i])>> \o LabelsAt(b, i + b[i] + 1)

\* C14 as stated: where a pointer-free name is encoded at offset k of the
\* buffer, expanding a pointer to k yields the labels of that name
C14_PointerExpansion ==
    (nstep = "expanded" /\ PointerFreeNameAt(nbuf, nin[2] + 1))
        => nres = Ok(Sequence(LabelsAt(nbuf, nin[2] + 1)))

\* C15 as stated: expand_label returns for every name and every buffer
C15_ExpandTerminates == (nstep = "expanded") => nres.tag # "Diverge"

\* C17 as stated: a name whose labels have 1 to 255 bytes is returned
\* unchanged by encode followed by decode, all encoded bytes being consumed
C17_LabelBounds ==
    (nstep = "name parsed"
        /\ \A i \in 1..Len(nin[2]) : Len(nin[2][i]) \in 1..MaxStringLen)
        => nres = Ok(<<nin, Len(nbuf)>>)

\* the wire form of the labels of a pointer-free name
NameBytes(name) ==
    Concat([i \in 1..Len(name[2]) |-> <<Len(name[2][i])>> \o name[2][i]]) \o <<0>>

\* C19 as stated: an MX payload with preference p and a pointer-free
\* exchange name n encodes as the two big-endian bytes of p followed by n,
\* and decodes to MailExchange { preference: p, exchange: n }
C19_MxRoundTrip ==
    (nstep = "mx parsed" /\ nin[3][1] = "Sequence")
        => /\ nbuf = <<nin[2] \div 256, nin[2] % 256>> \o NameBytes(nin[3])
           /\ nres = Ok(nin)

\* C22 as stated: a buffer that starts with a pointer decodes to the pointer
\* label with the low 14 bits of its first two bytes as offset, 2 bytes
\* consumed, whatever follows
C22_PointerConsumesTwo ==
    (nstep = "label parsed" /\ Len(nbuf) >= 2 /\ nbuf[1] >= 192)
        => nres = Ok(<<Compressed((nbuf[1] % 64) * 256 + nbuf[2]), 2>>)

RECURSIVE PointerAfterLabels(_, _)
\* index of the pointer that ends the name at index i of b, 0 if the name
\* ends otherwise or the buffer ends first
PointerAfterLabels(b, i) ==
    IF i > Len(b) \/ b[i] = 0 THEN 0
    ELSE IF b[i] >= 192 THEN (IF i < Len(b) THEN i ELSE 0)
    ELSE PointerAfterLabels(b, i + b[i] + 1)

\* C23 as stated: literal labels followed by a pointer decode, the name
\* ending with the pointer and the length bytes, the labels and the two
\* pointer bytes being consumed
C23_PointerAfterLabels ==
    (nstep = "label parsed" /\ nbuf[1] \in 1..191 /\ PointerAfterLabels(nbuf, 1) > 0)
        => (IsOk(nres) /\ nres.val[2] = PointerAfterLabels(nbuf, 1) + 1)

\* C24 as stated: a name of literal labels ended by a zero byte decodes to
\* those labels and consumes the bytes up to and including the zero byte,
\* whatever follows it in the buffer
C24_LiteralNameDecode ==
    (nstep = "label parsed" /\ PointerFreeNameAt(nbuf, 1))
        => nres = Ok(<<Sequence(LabelsAt(nbuf, 1)), NameEnd(nbuf, 1)>>)

\* C25 as stated: Question decode reads type and class from the four bytes
\* after the zero byte that ends the name; fewer than 2 bytes there give
\* MissingTypeAndClass, 2 or 3 give MissingClass, unregistered values give
\* InvalidType / InvalidClass
C25_QuestionTypeAndClass ==
    (nstep = "question parsed" /\ PointerFreeNameAt(nbuf, 1)
        /\ \A i \in 1..NameEnd(nbuf, 1) : nbuf[i] < 128)
        => LET e == NameEnd(nbuf, 1)
               after == Len(nbuf) - e
               t == WordAt(nbuf, e)
               c == WordAt(nbuf, e + 2)
           IN  IF after < 2 THEN nres = Err(<<"MissingTypeAndClass">>)
               ELSE IF after < 4 THEN nres = Err(<<"MissingClass">>)
               ELSE IF t \notin (1..16) \cup (252..255)
                    THEN nres.tag = "Err" /\ nres.val[1] = "InvalidType"
               ELSE IF c \notin (1..4) \cup {255}
                    THEN nres.tag = "Err" /\ nres.val[1] = "InvalidClass"
               ELSE /\ IsOk(nres)
                    /\ nres.val.name = LabelsAt(nbuf, 1)
                    /\ TypeCode(nres.val.typ) = t
                    /\ ClassCode(nres.val.class) = c

\* C26 as stated: a record whose length field says L is decoded from the L
\* bytes after that field alone, and the bytes consumed are those of the
\* owner name (2 for a pointer), the ten bytes of the fixed fields and L
C26_RecordPayloadBounds ==
    (nstep = "record parsed" /\ NameEnd(nbuf, 1) > 0
        /\ Len(nbuf) >= NameEnd(nbuf, 1) + 10
        /\ Len(nbuf) >= ItemEnd(FALSE, nbuf, 1))
        => LET e == NameEnd(nbuf, 1)
               end == ItemEnd(FALSE, nbuf, 1)
               data == parse_data(ResourceTypeTryFrom(WordAt(nbuf, e)).val,
                                  SubSeq(nbuf, e + 11, end))
           IN  IF IsOk(data)
               THEN IsOk(nres) /\ nres.val[1].data = data.val /\ nres.val[2] = end
               ELSE ~IsOk(nres)

\* C27 as stated: an SOA payload is its two names followed by serial,
\* refresh, retry, expire and minimum as big-endian 32-bit integers, and
\* decode returns the SOA that was encoded
C27_SoaRoundTrip ==
    (nstep = "payload parsed" /\ nin[1] = "SOA")
        => /\ nbuf = NameBytes(nin[2]) \o NameBytes(nin[3])
                        \o Concat([i \in 1..5 |-> put_u32(nin[3 + i])])
           /\ nres = Ok(nin)

\* C28 as stated: a TXT payload of character-strings s1..sn that fill the
\* region decodes to Text([s1, ..., sn])
C28_TextDecode ==
    (nstep = "payload parsed" /\ nin[1] = "Text")
        => /\ nbuf = Concat([i \in 1..Len(nin[2]) |-> <<Len(nin[2][i])>> \o nin[2][i]])
           /\ nres = Ok(nin)

\* ------------------------------------------------------------------------
\* Properties of the server loop (checked under SpecServer)
\* ------------------------------------------------------------------------
\* the opcode field of the flags of a datagram
OpcodeOf(b) == (b[3] \div 8) % 16

\* C20: every response sent carries the id of its query, packet type
\* Response, and the query's operation code and recursion-desired flag
C20_ResponseEchoesQuery ==
    \A i \in 1..Len(ssent) :
        LET query == ssent[i][1]
            reply == ssent[i][2]
        IN  /\ WordAt(reply, 0) = WordAt(query, 0)
            /\ reply[3] >= 128
            /\ OpcodeOf(reply) = OpcodeOf(query)
            /\ reply[3] % 2 = query[3] % 2

C20_Witness ==
    /\ sresolver
    /\ Len(ssent) = 2
    /\ OpcodeOf(ssent[1][1]) = 15
    /\ ssent[1][1][3] % 2 = 1
    /\ WordAt(ssent[1][2], 6) = 2
    /\ WordAt(ssent[2][1], 0) = 22865
    /\ OpcodeOf(ssent[2][1]) = 0

\* a step of the loop in which recv_from has handed a datagram to main
Received ==
    /\ sstep = "recv"
    /\ svars' # svars
    /\ ~(sstep' = "exited" /\ sexit' = Ok(<<>>))

\* a step that sends one response, to the datagram query, and goes back to
\* recv_from
Answered(query) ==
    /\ sstep' = "recv"
    /\ Len(ssent') = Len(ssent) + 1
    /\ SubSeq(ssent', 1, Len(ssent)) = ssent
    /\ ssent'[Len(ssent')][1] = query

\* a step that ends main without a response, with one of the results in how
\* or with anything if how is empty
Ended(how) ==
    /\ sstep' = "exited"
    /\ ssent' = ssent
    /\ how = {} \/ sexit' \in how

====
